---- MODULE Spec2Model ----
(***************************************************************************)
(* rat-lang: the pipeline  get_tokens -> get_ast -> evaluate  of main.rs.  *)
(* A character is a one-character string, the input a sequence of them.    *)
(* A panic (an unwrap of Err, panic!, an arithmetic overflow check) is the *)
(* result tag "Panic": the call never returns to its caller.               *)
(***************************************************************************)
EXTENDS Integers, Sequences, FiniteSets, TLC

VARIABLES input, pc, start, current, line, character, tokens, lex_result,
          parser_current, term_number, ast_result, value

vars == <<input, pc, start, current, line, character, tokens, lex_result,
          parser_current, term_number, ast_result, value>>

(* ------------------------------ bounds --------------------------------- *)

MaxLen == 3  \* longest input of the free-text family
MaxOps == 2  \* most operators in an input of the expression family

(* --------------------------- the inputs -------------------------------- *)

I32_MAX == 2147483647

I32_MIN == (-I32_MAX) - 1

Digits == {"0", "1", "2", "3", "4", "5", "6", "7", "8", "9"}

Letters ==
  {"a", "b", "c", "d", "e", "f", "g", "h", "i", "j", "k", "l", "m",
   "n", "o", "p", "q", "r", "s", "t", "u", "v", "w", "x", "y", "z",
   "A", "B", "C", "D", "E", "F", "G", "H", "I", "J", "K", "L", "M",
   "N", "O", "P", "Q", "R", "S", "T", "U", "V", "W", "X", "Y", "Z"}

\* The characters the free-text inputs are made of: two digits, the two
\* operators, each whitespace arm, a letter, the underscore and one character
\* no arm of scan_token accepts.
Alphabet == {"0", "7", "+", "-", " ", "\t", "\r", "\n", "a", "_", "#"}

FreeInputs == UNION {[1..n -> Alphabet] : n \in 0..MaxLen}

\* The literals of the expression inputs: a small one, the largest i32 and
\* the first digit run that does not fit an i32.
Literals ==
  {<<"1", "0">>,
   <<"2", "1", "4", "7", "4", "8", "3", "6", "4", "7">>,
   <<"2", "1", "4", "7", "4", "8", "3", "6", "4", "8">>}

Separators == {<<>>, <<" ", "\t", "\r", "\n">>}

RECURSIVE ExprInputs(_)
ExprInputs(k) ==
  IF k = 0 THEN Literals
  ELSE {e \o sep \o <<op>> \o sep \o l :
          e \in ExprInputs(k - 1), sep \in Separators,
          op \in {"+", "-"}, l \in Literals}

\* What may follow an expression: nothing, or a character no arm accepts.
Tails == {<<>>, <<"#">>}

Inputs ==
  FreeInputs \cup
  {e \o t : e \in UNION {ExprInputs(k) : k \in 0..MaxOps}, t \in Tails}

(* ------------------------------ lexer.rs ------------------------------- *)

is_digit(c) == c \in Digits

digit_value(c) ==
  CASE c = "0" -> 0 [] c = "1" -> 1 [] c = "2" -> 2 [] c = "3" -> 3
    [] c = "4" -> 4 [] c = "5" -> 5 [] c = "6" -> 6 [] c = "7" -> 7
    [] c = "8" -> 8 [] c = "9" -> 9

\* Lexeme { input, start, end }: the input is the one shared buffer.
Lexeme(s, e) == [start |-> s, end |-> e]

get_value(lexeme) == SubSeq(input, lexeme.start + 1, lexeme.end)

get_current_lexeme(s, cur) == Lexeme(s, cur)

NumberToken(lit, lexeme, ln, ch) ==
  [type |-> "Number", literal |-> lit, lexeme |-> lexeme, line |-> ln,
   character |-> ch]

PlusToken(lexeme, ln, ch) ==
  [type |-> "Plus", lexeme |-> lexeme, line |-> ln, character |-> ch]

MinusToken(lexeme, ln, ch) ==
  [type |-> "Minus", lexeme |-> lexeme, line |-> ln, character |-> ch]

EOFToken == [type |-> "EOF"]

\* Mutant: the error carries the column after the offending character.
UnexpectedTokenError_column_after(lexeme, ln, ch) ==
  [kind |-> "UnexpectedToken", lexeme |-> lexeme, line |-> ln,
   character |-> ch + 1]

UnexpectedTokenError(lexeme, ln, ch) ==
  [kind |-> "UnexpectedToken", lexeme |-> lexeme, line |-> ln,
   character |-> ch]

is_at_end(cur) == cur >= Len(input)

\* peek: the character at the cursor, "" standing for None.
peek(cur) == IF is_at_end(cur) THEN "" ELSE input[cur + 1]

\* Mutant: number() without its loop, one digit per token.
number_end_one_digit(cur) == cur

\* number's loop: advance while the next character is a digit; the cursor
\* it stops at.
RECURSIVE number_end(_)
number_end(cur) ==
  IF peek(cur) # "" /\ is_digit(peek(cur)) THEN number_end(cur + 1) ELSE cur

\* i32::checked_mul(10) and i32::checked_add(d) on a value >= 0; an Option is
\* a set: {} for None, {v} for Some(v).
checked_mul_10(x) == IF x > I32_MAX \div 10 THEN {} ELSE {x * 10}

checked_add(x, d) == IF x > I32_MAX - d THEN {} ELSE {x + d}

\* The first n digits of s parsed: digit by digit, result =
\* result.checked_mul(10)?.checked_add(digit)?.
RECURSIVE parse_digits(_, _)
parse_digits(s, n) ==
  IF n = 0 THEN {0}
  ELSE UNION {UNION {checked_add(m, digit_value(s[n])) :
                       m \in checked_mul_10(acc)} :
                acc \in parse_digits(s, n - 1)}

\* str::parse::<i32> of a run of digits; {} is Err(PosOverflow).
parse_i32(s) == parse_digits(s, Len(s))

\* Mutant: the column advances by one per pass, whatever was consumed.
column_after_one(ch, s, cur) == ch + 1

\* The column after one pass of scan's loop (line 76).
column_after(ch, s, cur) == ch + (cur - s)

scan_push(toks, t) == Append(toks, t)

\* Mutant: scan returns the tokens without pushing EOF.
scan_return_no_eof(toks) == [tag |-> "Ok", tokens |-> toks]

\* What scan returns once the loop has ended (lines 79-80).
scan_return(toks) == [tag |-> "Ok", tokens |-> Append(toks, EOFToken)]

(* ------------------------------ parser.rs ------------------------------ *)

Integer(v) == [kind |-> "Integer", value |-> v]

Binary(l, op, r) ==
  [kind |-> "Binary", left |-> l, operator |-> op, right |-> r]

\* The token vector get_ast borrows: what get_tokens returned to main.
parser_tokens == lex_result.tokens

parser_is_at_end(cur) == cur >= Len(parser_tokens)

\* Parser::advance: the token handed out (a token of type "None" standing for
\* None) and the cursor afterwards.
parser_advance(cur) ==
  IF parser_is_at_end(cur) THEN [token |-> [type |-> "None"], current |-> cur]
  ELSE [token |-> parser_tokens[cur + 1], current |-> cur + 1]

\* Parser::previous.
previous(cur) ==
  IF cur = 0 \/ parser_is_at_end(cur) THEN [type |-> "None"]
  ELSE parser_tokens[cur]

\* match_term_operand: whether the token advance() hands out is Plus or Minus.
match_term_operand(cur) == parser_advance(cur).token.type \in {"Plus", "Minus"}

\* The operator term() reads back with previous() (lines 49-53); "Panic" is
\* the panic! of the third arm.
term_operator(cur) ==
  LET t == previous(cur).type
  IN  IF t \in {"Plus", "Minus"} THEN t ELSE "Panic"

\* Mutant: the two children the wrong way round.
term_combine_swapped(number, operator, right) == Binary(right, operator, number)

\* The node term() builds from the expression so far, the operator and the
\* number just read (lines 55-59).
term_combine(number, operator, right) == Binary(number, operator, right)

(* ----------------------------- evaluate.rs ----------------------------- *)

Value(v) == [tag |-> "Ok", value |-> v]

Panic == [tag |-> "Panic"]

\* left + right on i32: with overflow checks on (a debug build) an overflow
\* panics, with them off (a release build) the sum wraps modulo 2^32.
i32_add(a, b, overflow_checks) ==
  IF b >= 0 /\ a > I32_MAX - b
    THEN IF overflow_checks THEN Panic
         ELSE Value(((a - I32_MAX) - 1) + ((b - I32_MAX) - 1))
  ELSE IF b < 0 /\ a < I32_MIN - b
    THEN IF overflow_checks THEN Panic
         ELSE Value(((a + I32_MAX) + 1) + ((b + I32_MAX) + 1))
  ELSE Value(a + b)

\* Mutant: right - left.
i32_sub_swapped(a, b, overflow_checks) ==
  IF a >= 0 /\ b < I32_MIN + a
    THEN IF overflow_checks THEN Panic
         ELSE Value(((b + I32_MAX) + 1) - ((a - I32_MAX) - 1))
  ELSE IF a < 0 /\ b > I32_MAX + a
    THEN IF overflow_checks THEN Panic
         ELSE Value(((b - I32_MAX) - 1) - ((a + I32_MAX) + 1))
  ELSE Value(b - a)

\* left - right on i32, likewise.
i32_sub(a, b, overflow_checks) ==
  IF b >= 0 /\ a < I32_MIN + b
    THEN IF overflow_checks THEN Panic
         ELSE Value(((a + I32_MAX) + 1) - ((b - I32_MAX) - 1))
  ELSE IF b < 0 /\ a > I32_MAX + b
    THEN IF overflow_checks THEN Panic
         ELSE Value(((a - I32_MAX) - 1) - ((b + I32_MAX) + 1))
  ELSE Value(a - b)

\* Evaluate for Binary, given the two children's results: a panic in a child
\* unwinds through the parent.
binary_evaluate(left, operator, right, overflow_checks) ==
  IF left.tag = "Panic" THEN Panic
  ELSE IF right.tag = "Panic" THEN Panic
  ELSE IF operator = "Plus" THEN i32_add(left.value, right.value, overflow_checks)
  ELSE i32_sub(left.value, right.value, overflow_checks)

RECURSIVE evaluate(_, _)
evaluate(root, overflow_checks) ==
  IF root.kind = "Integer" THEN Value(root.value)
  ELSE binary_evaluate(evaluate(root.left, overflow_checks), root.operator,
                       evaluate(root.right, overflow_checks), overflow_checks)

(* ------------------------------- main.rs ------------------------------- *)

NoLexResult == [tag |-> "None"]

NoAst == [tag |-> "None"]

NoValue == [tag |-> "None"]

NoExpr == [kind |-> "None"]

Init ==
  /\ input \in Inputs
  /\ pc = "scan"
  /\ start = 0
  /\ current = 0
  /\ line = 1
  /\ character = 1
  /\ tokens = <<>>
  /\ lex_result = NoLexResult
  /\ parser_current = 0
  /\ term_number = NoExpr
  /\ ast_result = NoAst
  /\ value = NoValue

ParserIdle == UNCHANGED <<parser_current, term_number, ast_result, value>>

\* One pass of scan's loop over ' ', '\r' or '\t'.
ScanWhitespace ==
  /\ pc = "scan" /\ ~is_at_end(current)
  /\ input[current + 1] \in {" ", "\r", "\t"}
  /\ start' = current
  /\ current' = current + 1
  /\ character' = column_after(character, start', current')
  /\ UNCHANGED <<input, pc, line, tokens, lex_result>>
  /\ ParserIdle

\* One pass over '\n': newline() moves start to the cursor, so line 76 adds 0.
ScanNewline ==
  /\ pc = "scan" /\ ~is_at_end(current)
  /\ input[current + 1] = "\n"
  /\ current' = current + 1
  /\ line' = line + 1
  /\ start' = current'
  /\ character' = column_after(1, start', current')
  /\ UNCHANGED <<input, pc, tokens, lex_result>>
  /\ ParserIdle

ScanPlus ==
  /\ pc = "scan" /\ ~is_at_end(current)
  /\ input[current + 1] = "+"
  /\ start' = current
  /\ current' = current + 1
  /\ tokens' = scan_push(tokens,
                 PlusToken(get_current_lexeme(start', current'), line, character))
  /\ character' = column_after(character, start', current')
  /\ UNCHANGED <<input, pc, line, lex_result>>
  /\ ParserIdle

ScanMinus ==
  /\ pc = "scan" /\ ~is_at_end(current)
  /\ input[current + 1] = "-"
  /\ start' = current
  /\ current' = current + 1
  /\ tokens' = scan_push(tokens,
                 MinusToken(get_current_lexeme(start', current'), line, character))
  /\ character' = column_after(character, start', current')
  /\ UNCHANGED <<input, pc, line, lex_result>>
  /\ ParserIdle

\* One pass over a digit: number() then add_number_token(), whose unwrap
\* succeeds.
ScanNumber ==
  /\ pc = "scan" /\ ~is_at_end(current)
  /\ is_digit(input[current + 1])
  /\ LET end == number_end(current + 1)
     IN  /\ start' = current
         /\ current' = end
         /\ \E v \in parse_i32(SubSeq(input, current + 1, end)) :
              tokens' = scan_push(tokens,
                NumberToken(v, get_current_lexeme(current, end), line, character))
         /\ character' = column_after(character, current, end)
  /\ UNCHANGED <<input, pc, line, lex_result>>
  /\ ParserIdle

\* The same pass when parse::<i32> returns Err: unwrap panics (line 164).
ScanNumberOverflow ==
  /\ pc = "scan" /\ ~is_at_end(current)
  /\ is_digit(input[current + 1])
  /\ LET end == number_end(current + 1)
     IN  /\ parse_i32(SubSeq(input, current + 1, end)) = {}
         /\ start' = current
         /\ current' = end
  /\ lex_result' = [tag |-> "Panic"]
  /\ pc' = "done"
  /\ UNCHANGED <<input, line, character, tokens>>
  /\ ParserIdle

\* One pass over a letter or '_': the empty arm.
ScanIdentifier ==
  /\ pc = "scan" /\ ~is_at_end(current)
  /\ input[current + 1] \in Letters \cup {"_"}
  /\ start' = current
  /\ current' = current + 1
  /\ character' = column_after(character, start', current')
  /\ UNCHANGED <<input, pc, line, tokens, lex_result>>
  /\ ParserIdle

\* Any other character: scan_token returns Err and `?` returns it from scan;
\* main's unwrap of the Err ends the program.
ScanUnexpected ==
  /\ pc = "scan" /\ ~is_at_end(current)
  /\ LET c == input[current + 1]
     IN  /\ c \notin {" ", "\r", "\t", "\n", "+", "-"}
         /\ ~is_digit(c)
         /\ c \notin Letters \cup {"_"}
  /\ start' = current
  /\ current' = current + 1
  /\ lex_result' =
       [tag |-> "Err",
        error |-> UnexpectedTokenError(get_current_lexeme(start', current'),
                                       line, character)]
  /\ pc' = "done"
  /\ UNCHANGED <<input, line, character, tokens>>
  /\ ParserIdle

\* The loop has ended: push EOF and return Ok(tokens).
ScanEnd ==
  /\ pc = "scan" /\ is_at_end(current)
  /\ lex_result' = scan_return(tokens)
  /\ pc' = "term"
  /\ UNCHANGED <<input, start, current, line, character, tokens>>
  /\ ParserIdle

\* term()'s first number(): the token is a Number.
TermNumber ==
  /\ pc = "term"
  /\ LET a == parser_advance(parser_current)
     IN  /\ a.token.type = "Number"
         /\ parser_current' = a.current
         /\ term_number' = Integer(a.token.literal)
  /\ pc' = "term_loop"
  /\ UNCHANGED <<input, start, current, line, character, tokens, lex_result,
                 ast_result, value>>

\* term()'s first number(): any other token, or none, panics (line 74).
TermNumberPanic ==
  /\ pc = "term"
  /\ LET a == parser_advance(parser_current)
     IN  /\ a.token.type # "Number"
         /\ parser_current' = a.current
  /\ ast_result' = [tag |-> "Panic"]
  /\ pc' = "done"
  /\ UNCHANGED <<input, start, current, line, character, tokens, lex_result,
                 term_number, value>>

\* One pass of term()'s loop: an operator, then a Number.
TermLoop ==
  /\ pc = "term_loop"
  /\ match_term_operand(parser_current)
  /\ LET cur == parser_advance(parser_current).current
         operator == term_operator(cur)
         a == parser_advance(cur)
     IN  /\ operator # "Panic"
         /\ a.token.type = "Number"
         /\ parser_current' = a.current
         /\ term_number' =
              term_combine(term_number, operator, Integer(a.token.literal))
  /\ UNCHANGED <<input, pc, start, current, line, character, tokens,
                 lex_result, ast_result, value>>

\* One pass of term()'s loop that panics: previous() gives no operator
\* (line 52) or number() finds no Number (line 74).
TermLoopPanic ==
  /\ pc = "term_loop"
  /\ match_term_operand(parser_current)
  /\ LET cur == parser_advance(parser_current).current
         operator == term_operator(cur)
         a == parser_advance(cur)
     IN  /\ operator = "Panic" \/ a.token.type # "Number"
         /\ parser_current' = IF operator = "Panic" THEN cur ELSE a.current
  /\ ast_result' = [tag |-> "Panic"]
  /\ pc' = "done"
  /\ UNCHANGED <<input, start, current, line, character, tokens, lex_result,
                 term_number, value>>

\* match_term_operand is false: the loop ends and term() returns the
\* expression; the token advance() handed out stays consumed.
TermReturn ==
  /\ pc = "term_loop"
  /\ ~match_term_operand(parser_current)
  /\ parser_current' = parser_advance(parser_current).current
  /\ ast_result' = [tag |-> "Ok", expr |-> term_number]
  /\ pc' = "evaluate"
  /\ UNCHANGED <<input, start, current, line, character, tokens, lex_result,
                 term_number, value>>

\* evaluate(&ast), under either setting of the build's overflow checks.
Evaluate ==
  /\ pc = "evaluate"
  /\ \E overflow_checks \in BOOLEAN :
       value' = evaluate(ast_result.expr, overflow_checks)
  /\ pc' = "done"
  /\ UNCHANGED <<input, start, current, line, character, tokens, lex_result,
                 parser_current, term_number, ast_result>>

Next ==
  \/ ScanWhitespace
  \/ ScanNewline
  \/ ScanPlus
  \/ ScanMinus
  \/ ScanNumber
  \/ ScanNumberOverflow
  \/ ScanIdentifier
  \/ ScanUnexpected
  \/ ScanEnd
  \/ TermNumber
  \/ TermNumberPanic
  \/ TermLoop
  \/ TermLoopPanic
  \/ TermReturn
  \/ Evaluate

Spec == Init /\ [][Next]_vars

(* ------------------- the input, read without the scanner ---------------- *)

Whitespace == {" ", "\t", "\r", "\n"}

Operators == {"+", "-"}

\* The characters some arm of scan_token other than the last accepts.
Accepted == Digits \cup Operators \cup Whitespace \cup Letters \cup {"_"}

\* A maximal run of digits starts at position i (1-based).
RunStart(i) == input[i] \in Digits /\ (i = 1 \/ input[i - 1] \notin Digits)

\* The last position of the maximal run of digits that holds position i.
RunLast(i) ==
  CHOOSE j \in i..Len(input) :
    /\ \A k \in i..j : input[k] \in Digits
    /\ j = Len(input) \/ input[j + 1] \notin Digits

Run(i) == SubSeq(input, i, RunLast(i))

\* The positions where a token starts.
TokenStarts ==
  {i \in 1..Len(input) : input[i] \in Operators \/ RunStart(i)}

RECURSIVE Sorted(_)
Sorted(S) ==
  IF S = {} THEN <<>>
  ELSE LET m == CHOOSE x \in S : \A y \in S : x <= y
       IN  <<m>> \o Sorted(S \ {m})

\* A run of digits without its leading zeros (one zero kept).
RECURSIVE Significant(_)
Significant(run) ==
  IF Len(run) > 1 /\ run[1] = "0" THEN Significant(Tail(run)) ELSE run

MaxDigits == <<"2", "1", "4", "7", "4", "8", "3", "6", "4", "7">>

\* The run denotes a value of at most 2147483647: decided on the digits.
FitsI32(run) ==
  LET sig == Significant(run)
  IN  \/ Len(sig) < Len(MaxDigits)
      \/ /\ Len(sig) = Len(MaxDigits)
         /\ \/ sig = MaxDigits
            \/ \E k \in 1..Len(sig) :
                 /\ \A j \in 1..(k - 1) : sig[j] = MaxDigits[j]
                 /\ digit_value(sig[k]) < digit_value(MaxDigits[k])

RECURSIVE Pow10(_)
Pow10(n) == IF n = 0 THEN 1 ELSE 10 * Pow10(n - 1)

RECURSIVE PlaceSum(_, _)
PlaceSum(sig, k) ==
  IF k = 0 THEN 0
  ELSE PlaceSum(sig, k - 1) + digit_value(sig[k]) * Pow10(Len(sig) - k)

\* The decimal value of a run that fits: the sum of digit * 10^place.
DecimalValue(run) == PlaceSum(Significant(run), Len(Significant(run)))

NewlinesBefore(p) == Cardinality({i \in 1..(p - 1) : input[i] = "\n"})

\* The position of the last newline before position p, 0 when there is none.
LastNewlineBefore(p) ==
  LET nl == {i \in 1..(p - 1) : input[i] = "\n"}
  IN  IF nl = {} THEN 0 ELSE CHOOSE i \in nl : \A j \in nl : j <= i

\* 1-based line and column of position p.
LineOf(p) == 1 + NewlinesBefore(p)

ColumnOf(p) == 1 + ((p - 1) - LastNewlineBefore(p))

ScanFinished == lex_result.tag # "None"

NonSentinel(toks) == SelectSeq(toks, LAMBDA t : t.type # "EOF")

(* -------------------------------- claims -------------------------------- *)

\* The non-sentinel token that starts at position i is the one the text at i
\* calls for.
TokenMatches(t, i) ==
  /\ t.lexeme.start = i - 1
  /\ IF input[i] = "+" THEN
       t.type = "Plus" /\ t.lexeme.end = i /\ get_value(t.lexeme) = <<"+">>
     ELSE IF input[i] = "-" THEN
       t.type = "Minus" /\ t.lexeme.end = i /\ get_value(t.lexeme) = <<"-">>
     ELSE
       /\ t.type = "Number"
       /\ t.lexeme.end = RunLast(i)
       /\ get_value(t.lexeme) = Run(i)
       /\ t.literal = DecimalValue(Run(i))

C2_Precondition ==
  /\ \A i \in 1..Len(input) : input[i] \in Accepted
  /\ \A i \in 1..Len(input) : RunStart(i) => FitsI32(Run(i))

\* C2: for an input of accepted characters whose digit runs fit an i32,
\* get_tokens returns Ok and the non-sentinel tokens are, in source order, one
\* Number per maximal digit run (literal its decimal value, lexeme the whole
\* run) and one Plus/Minus per '+'/'-'; nothing else produces a token.
C2_TokensAreRunsAndOperators ==
  (ScanFinished /\ C2_Precondition) =>
    /\ lex_result.tag = "Ok"
    /\ LET toks == NonSentinel(lex_result.tokens)
           starts == Sorted(TokenStarts)
       IN  /\ Len(toks) = Len(starts)
           /\ \A k \in 1..Len(toks) : TokenMatches(toks[k], starts[k])

\* C2 witness: a finished scan of accepted text with a digit run of two or
\* more digits and a letter or underscore in it.
C2_Witness ==
  /\ ScanFinished /\ C2_Precondition
  /\ \E k \in 1..Len(lex_result.tokens) :
       /\ lex_result.tokens[k].type = "Number"
       /\ lex_result.tokens[k].lexeme.end - lex_result.tokens[k].lexeme.start >= 2
  /\ \E i \in 1..Len(input) : input[i] \in Letters \cup {"_"}

TokenPositionRight(t) ==
  t.type # "EOF" =>
    /\ t.line = LineOf(t.lexeme.start + 1)
    /\ t.character = ColumnOf(t.lexeme.start + 1)

\* C3: every emitted token's line is 1 + the newlines before its first
\* character and its column is 1 + the characters between the last preceding
\* newline (or the start of the input) and its first character; while the scan
\* runs, the scanner's line and column are those of the cursor.
C3_TokenPositions ==
  /\ \A k \in 1..Len(tokens) : TokenPositionRight(tokens[k])
  /\ lex_result.tag = "Ok" =>
       \A k \in 1..Len(lex_result.tokens) : TokenPositionRight(lex_result.tokens[k])
  /\ pc = "scan" =>
       /\ line = LineOf(current + 1)
       /\ character = ColumnOf(current + 1)

\* C3 witness: a token on the second line that is not in its first column.
C3_Witness ==
  /\ lex_result.tag = "Ok"
  /\ \E k \in 1..Len(tokens) : tokens[k].line = 2 /\ tokens[k].character = 2

\* C4: when get_tokens returns Ok the sequence holds exactly one EOF token and
\* it is the last element.
C4_OneEOFLast ==
  lex_result.tag = "Ok" =>
    LET toks == lex_result.tokens
    IN  /\ Len(toks) >= 1
        /\ toks[Len(toks)].type = "EOF"
        /\ \A k \in 1..(Len(toks) - 1) : toks[k].type # "EOF"

\* C4 witness: Ok for a non-empty input that produces no token but EOF.
C4_Witness ==
  /\ lex_result.tag = "Ok"
  /\ Len(input) > 0
  /\ Len(lex_result.tokens) = 1

HasUnaccepted == \E i \in 1..Len(input) : input[i] \notin Accepted

FirstUnaccepted ==
  CHOOSE p \in 1..Len(input) :
    input[p] \notin Accepted /\ \A q \in 1..(p - 1) : input[q] \in Accepted

\* get_tokens has returned Err(UnexpectedToken) for position p and nothing
\* else: no token sequence, and neither the parser nor the evaluator ran.
UnexpectedTokenAt(p) ==
  /\ lex_result =
       [tag |-> "Err",
        error |-> [kind |-> "UnexpectedToken",
                   lexeme |-> [start |-> p - 1, end |-> p],
                   line |-> LineOf(p), character |-> ColumnOf(p)]]
  /\ get_value(lex_result.error.lexeme) = <<input[p]>>
  /\ pc = "done" /\ ast_result = NoAst /\ value = NoValue

Starts == Sorted(TokenStarts)

MatchesGrammar ==
  /\ \A i \in 1..Len(input) : input[i] \in Digits \cup Operators \cup Whitespace
  /\ Len(Starts) % 2 = 1
  /\ \A k \in 1..Len(Starts) :
       IF k % 2 = 1 THEN input[Starts[k]] \in Digits
       ELSE input[Starts[k]] \in Operators

LiteralsFit == \A i \in 1..Len(input) : RunStart(i) => FitsI32(Run(i))

NumberCount == (Len(Starts) + 1) \div 2

LiteralAt(j) == DecimalValue(Run(Starts[2 * j - 1]))

OperatorAt(j) == input[Starts[2 * j - 2]]

Overflowed == [ok |-> FALSE, value |-> 0]

\* The first j literals folded left to right; ok is FALSE once a running
\* result leaves the i32 range.
RECURSIVE Fold(_)
Fold(j) ==
  IF j = 1 THEN [ok |-> TRUE, value |-> LiteralAt(1)]
  ELSE LET f == Fold(j - 1)
           v == LiteralAt(j)
       IN  IF ~f.ok THEN Overflowed
           ELSE IF OperatorAt(j) = "+"
             THEN IF f.value > I32_MAX - v THEN Overflowed
                  ELSE [ok |-> TRUE, value |-> f.value + v]
           ELSE IF f.value < I32_MIN + v THEN Overflowed
                ELSE [ok |-> TRUE, value |-> f.value - v]

C1_Precondition ==
  MatchesGrammar /\ LiteralsFit /\ Fold(NumberCount).ok

\* C1: for an input matching number (("+"|"-") number)* with whitespace
\* between tokens, whose literals and running results fit an i32, no stage
\* fails, the pipeline runs to its end and evaluate returns the left-to-right
\* fold of the literals.
C1_PipelineFoldsLeft ==
  C1_Precondition =>
    /\ lex_result.tag \in {"None", "Ok"}
    /\ ast_result.tag \in {"None", "Ok"}
    /\ value.tag \in {"None", "Ok"}
    /\ pc # "done" => ENABLED Next
    /\ pc = "done" => value = Value(Fold(NumberCount).value)

\* C1 witness: a finished run over number - number - number, the case in
\* which left and right grouping differ.
C1_Witness ==
  /\ C1_Precondition
  /\ pc = "done"
  /\ NumberCount = 3
  /\ OperatorAt(2) = "-" /\ OperatorAt(3) = "-"
  /\ LiteralAt(3) # 0

(* the shape of the tree *)

WellFormedTokens(toks) ==
  /\ Len(toks) % 2 = 0
  /\ toks[Len(toks)].type = "EOF"
  /\ \A k \in 1..(Len(toks) - 1) :
       IF k % 2 = 1 THEN toks[k].type = "Number"
       ELSE toks[k].type \in {"Plus", "Minus"}

RECURSIVE LeftChain(_)
LeftChain(e) ==
  \/ e.kind = "Integer"
  \/ e.kind = "Binary" /\ e.right.kind = "Integer" /\ LeftChain(e.left)

RECURSIVE BinaryCount(_)
BinaryCount(e) ==
  IF e.kind = "Binary" THEN 1 + BinaryCount(e.left) + BinaryCount(e.right)
  ELSE 0

\* In a left chain of k Binary nodes, the j-th node counted from the
\* innermost (j = 0 is the innermost left leaf).
RECURSIVE ChainNode(_, _, _)
ChainNode(e, j, k) == IF j = k THEN e ELSE ChainNode(e.left, j, k - 1)

\* C10: for tokens Number (op Number)^k EOF get_ast returns a left-leaning
\* chain: every right child is an Integer leaf, there are k Binary nodes, the
\* innermost left leaf is the first number, and the operators and right leaves
\* from the innermost node outward are the operators and numbers in token order.
C10_LeftLeaningChain ==
  (/\ lex_result.tag = "Ok"
   /\ ast_result.tag # "None"
   /\ WellFormedTokens(lex_result.tokens))
    => /\ ast_result.tag = "Ok"
       /\ LET toks == lex_result.tokens
              root == ast_result.expr
              k == (Len(toks) - 2) \div 2
          IN  /\ LeftChain(root)
              /\ BinaryCount(root) = k
              /\ ChainNode(root, 0, k) = Integer(toks[1].literal)
              /\ \A j \in 1..k :
                   /\ ChainNode(root, j, k).operator = toks[2 * j].type
                   /\ ChainNode(root, j, k).right = Integer(toks[2 * j + 1].literal)

\* C10 witness: a tree of two Binary nodes with different operators.
C10_Witness ==
  /\ lex_result.tag = "Ok"
  /\ ast_result.tag = "Ok"
  /\ WellFormedTokens(lex_result.tokens)
  /\ BinaryCount(ast_result.expr) = 2
  /\ ast_result.expr.operator # ast_result.expr.left.operator

(* the hardened error contract *)

\* Some number position the parser reaches holds no Number token.
BadNumberPosition(toks) ==
  \E i \in 1..Len(toks) :
    /\ i % 2 = 1
    /\ toks[i].type # "Number"
    /\ \A j \in 1..(i - 1) :
         IF j % 2 = 1 THEN toks[j].type = "Number"
         ELSE toks[j].type \in {"Plus", "Minus"}

\* C6: when a number position holds no Number token, parse returns a typed
\* ParseError to its caller; for the tokens of "-" it is UnexpectedEndOfInput.
C6_ParseErrorIsReturned ==
  (/\ lex_result.tag = "Ok"
   /\ ast_result.tag # "None"
   /\ BadNumberPosition(lex_result.tokens))
    => /\ ast_result.tag = "Err"
       /\ ast_result.error \in {"UnexpectedToken", "UnexpectedEndOfInput"}
       /\ (Len(lex_result.tokens) = 2 /\ lex_result.tokens[1].type = "Minus")
            => ast_result.error = "UnexpectedEndOfInput"

\* C7: parse never returns an expression built from a prefix of the tokens:
\* when it returns one, every token after those in the tree is the sentinel.
C7_NoTokenLeftUnparsed ==
  ast_result.tag = "Ok" =>
    \A k \in 1..Len(lex_result.tokens) :
      k > 2 * BinaryCount(ast_result.expr) + 1
        => lex_result.tokens[k].type = "EOF"

HasOverflowRun ==
  \E i \in 1..Len(input) : RunStart(i) /\ ~FitsI32(Run(i))

FirstOverflowRun ==
  CHOOSE p \in 1..Len(input) :
    /\ RunStart(p) /\ ~FitsI32(Run(p))
    /\ \A q \in 1..(p - 1) : ~(RunStart(q) /\ ~FitsI32(Run(q)))

\* C8: when a digit run exceeds 2147483647 (and no unaccepted character comes
\* before it) get_tokens returns Err(NumericOverflow) with the run's lexeme,
\* line and column.
C8_OverflowIsReturned ==
  (/\ ScanFinished
   /\ HasOverflowRun
   /\ \A q \in 1..(FirstOverflowRun - 1) : input[q] \in Accepted)
    => /\ lex_result.tag = "Err"
       /\ lex_result.error =
            [kind |-> "NumericOverflow",
             lexeme |-> [start |-> FirstOverflowRun - 1,
                         end |-> RunLast(FirstOverflowRun)],
             line |-> LineOf(FirstOverflowRun),
             character |-> ColumnOf(FirstOverflowRun)]

\* C9: when a running result of the expression leaves the i32 range, evaluate
\* returns Err(Overflow): no wrapped value, no panic.
C9_EvalOverflowIsReturned ==
  (/\ value.tag # "None"
   /\ MatchesGrammar /\ LiteralsFit
   /\ ~Fold(NumberCount).ok)
    => value = [tag |-> "Err", error |-> "Overflow"]

====
